---- MODULE Spec2Model ----
(***************************************************************************)
(* State-machine model of ProbesProducer                                   *)
(* (src/traced/probes/probes_producer.cc): the connection state machine    *)
(* with reconnect backoff, the data-source registry, the flush             *)
(* coordinator, the ftrace metadata broadcast and trigger forwarding; and  *)
(* of the resource watchdog with its windowed sample rings                 *)
(* (src/base/watchdog_posix.cc).  Every handler that runs on the           *)
(* single-threaded task runner is one action; the calls a handler makes    *)
(* are part of its action.  The watchdog's worker thread and the thread    *)
(* calling the watchdog take steps that are atomic under its mutex.        *)
(*   Spec, LiveSpec: connection, registry and flushes across restarts.     *)
(*   PeerSpec: registry and metadata broadcast on one connection.          *)
(*   TimerSpec: the registry with trace durations of the full width.       *)
(*   TriggerSpec: the connection state machine with triggers.              *)
(*   RingSpec: the operations of one sample ring.                          *)
(*   MemorySpec: the memory limit of the watchdog and its worker.          *)
(*   WatchdogSpec, WatchdogLiveSpec: the watchdog from Start to join.      *)
(***************************************************************************)
EXTENDS Integers, Sequences, FiniteSets, TLC

\* ------------------------------------------------------------------ bounds
\* Instance ids the service hands out per connection: 1..MaxInstances.
MaxInstances == 2
\* Instance ids per connection where the metadata broadcast is explored.
MaxPeerInstances == 3
\* Tracing session ids: 1..MaxSession (session ids are > 0).
MaxSession == 2
\* Flush request ids the service issues per connection: 1..MaxFlushes.
MaxFlushes == 1
\* Times one flush callback may be invoked by the instance holding it.
MaxAcks == 2
\* Producer restarts (disconnects while connected) explored.
MaxRestarts == 1
\* Consecutive failed connection attempts explored per run.
MaxFailures == 10
\* Longest id list the service passes to one Flush.
MaxIdsPerFlush == 2
\* Largest capacity a sample ring is given, and pushes explored per Reset.
MaxCapacity == 3
MaxPushes == 5
\* Clock ticks the process consumes while the watchdog is explored.
MaxCpuTime == 100
\* ActivateTrigger calls explored.
MaxTriggers == 2

\* ------------------------------------------------------- program constants
kInitialConnectionBackoffMs == 100
kMaxConnectionBackoffMs == 30 * 1000
kFlushTimeoutMs == 1000
kDefaultPollingInterval == 30 * 1000

InstanceIds ==
  1..(IF MaxPeerInstances > MaxInstances THEN MaxPeerInstances
      ELSE MaxInstances)
Sessions == 1..MaxSession
FlushIds == 1..MaxFlushes
Epochs == 0..MaxRestarts

\* Descriptor names of kAllDataSources that the model distinguishes, and a
\* config name that matches no descriptor.
FtraceDescriptor == "linux.ftrace"
ProcessStatsDescriptor == "linux.process_stats"
InodeFileDescriptor == "linux.inode_file_map"
kAllDataSources ==
  {FtraceDescriptor, ProcessStatsDescriptor, InodeFileDescriptor}
\* Names of the configs the service sends: two kinds and a name that is in
\* no descriptor; PeerConfigNames where the metadata broadcast is explored.
ConfigNames == {FtraceDescriptor, ProcessStatsDescriptor, "unknown"}
PeerConfigNames == kAllDataSources
\* A uint32_t is the pair <<high, low>> of its 16-bit halves, so that
\* every value of the type and the wrap at 2^32 can be written down.
Half == 2^16
Uint32(n) == <<n \div Half, n % Half>>
\* trace_duration_ms values of the configs passed to StartDataSource.
TraceDurations == {Uint32(0), Uint32(10000)}
\* The same with the values around the wrap of the timeout: the largest
\* duration whose timeout fits, the next one, and UINT32_MAX.
TimerDurations ==
  {Uint32(0), Uint32(1), Uint32(10000), <<32767, 63035>>, <<32767, 63036>>,
   <<65535, 65535>>}
\* The socket name main() passes to ConnectWithRetries.
SocketNames == {"/dev/socket/traced_producer"}
Null == "null"
TheTaskRunner == "task_runner"

VARIABLES
  \* ---- ProbesProducer members
  state,                    \* state_
  connection_backoff_ms,    \* connection_backoff_ms_
  socket_name,              \* socket_name_
  task_runner,              \* task_runner_
  endpoint,                 \* endpoint_ (Null or "ipc")
  data_sources,             \* data_sources_: id -> instance
  session_data_sources,     \* session_data_sources_: session -> multimap
  watchdogs,                \* watchdogs_: id -> armed timeout (ms, uint32_t)
  pending_flushes,          \* pending_flushes_: multimap as <<flush,id>> -> count
  ftrace,                   \* ftrace_ != nullptr
  ftrace_creation_failed,   \* ftrace_creation_failed_
  \* ---- task runner and collaborators
  epoch,                    \* incarnation of the producer (weak_factory_)
  restart_posted,           \* the posted Restart task is queued
  reconnect_posted,         \* the delayed Connect task is queued
  flush_timeouts,           \* queued timeout tasks <<epoch, flush>>
  callbacks,                \* flush callbacks held by instances -> times run
  sync_acked,               \* callbacks that ran inside the instance's Flush
  next_instance_id,         \* next id the service assigns on this connection
  next_flush_id,            \* next flush id the service issues
  ipc,                      \* the IPC channel: idle, connecting, connected, closed
  \* ---- what the endpoint / task runner observed
  flush_complete,           \* NotifyFlushComplete(F) calls, per F
  started_notified,         \* NotifyDataSourceStarted(id) calls, per id
  stopped_notified,         \* NotifyDataSourceStopped(id) calls, per id
  scheduled_delays,         \* delays of the reconnect tasks of this run
  state_path,               \* values state_ took during the last handler
  delivered,                \* metadata calls the last handler made, per
                            \* <<ftrace instance, receiving instance>>
  stale_runs,               \* the kind of task the last handler ran with a
                            \* dead weak_this while the live producer had
                            \* that flush pending
  dcheck_failed,            \* PERFETTO_DCHECKs that did not hold on entry
  \* ---- a Watchdog::WindowedInterval and what its caller saw; in the
  \* ---- watchdog it is memory_window_bytes_
  window,                   \* buffer_, position_, size_, filled_
  pushed,                   \* samples pushed since construction or Reset
  push_result,              \* <<what the last Push returned>>, <<>> if none
  \* ---- triggers (ProbesProducer::ActivateTrigger)
  trigger_tasks,            \* posted trigger tasks that have not run yet
  triggers_sent,            \* ActivateTriggers calls the endpoint received
  trigger_failures,         \* kProbesProducerTriggerFail atoms logged
  \* ---- Watchdog members
  polling_interval_ms,      \* polling_interval_ms_
  memory_limit_bytes,       \* memory_limit_bytes_
  cpu_limit_percentage,     \* cpu_limit_percentage_
  cpu_window,               \* cpu_window_time_ticks_
  quit,                     \* quit_
  thread_joinable,          \* thread_.joinable()
  mutex,                    \* mutex_: Null or the thread that holds it
  \* ---- the threads around the watchdog
  worker_pc,                \* ThreadMain: none, open, waiting, returned
  main_pc,                  \* the thread calling the watchdog: idle, inside
                            \* a limit setter, in join(), destroyed
  main_arg,                 \* the limit the setter in progress will store
  cpu_time,                 \* utime + stime of the process, in clock ticks
  \* ---- what the process and the kernel observed
  signals,                  \* SIGABRTs the watchdog raised
  check_failed,             \* a PERFETTO_CHECK failed (the process died)
  threads_started,          \* std::thread objects Start() launched
  memory_window_ms,         \* window_ms of the last accepted SetMemoryLimit
  cpu_window_ms             \* window_ms of the last accepted SetCpuLimit

producer_vars == <<state, connection_backoff_ms, socket_name, task_runner,
                   endpoint, data_sources, session_data_sources, watchdogs,
                   pending_flushes, ftrace, ftrace_creation_failed>>
runner_vars == <<epoch, restart_posted, reconnect_posted, flush_timeouts,
                 callbacks, sync_acked, next_instance_id, next_flush_id,
                 ipc>>
observed_vars == <<flush_complete, started_notified, stopped_notified,
                   scheduled_delays, state_path, dcheck_failed,
                   delivered, stale_runs>>
ring_vars == <<window, pushed, push_result>>
trigger_vars == <<trigger_tasks, triggers_sent, trigger_failures>>
watchdog_vars == <<polling_interval_ms, memory_limit_bytes,
                   cpu_limit_percentage, cpu_window, quit, thread_joinable,
                   mutex, worker_pc, main_pc, main_arg, cpu_time, signals,
                   check_failed, threads_started, memory_window_ms,
                   cpu_window_ms>>
vars == <<producer_vars, runner_vars, observed_vars, ring_vars, trigger_vars,
          watchdog_vars>>

\* ----------------------------------------------------------------- helpers
Put(f, k, v) == [x \in (DOMAIN f) \cup {k} |-> IF x = k THEN v ELSE f[x]]
Remove(f, k) == [x \in (DOMAIN f) \ {k} |-> f[x]]
EmptyMap == [x \in {} |-> 0]

RECURSIVE SumOver(_, _)
SumOver(f, S) ==
  IF S = {} THEN 0
  ELSE LET x == CHOOSE y \in S : TRUE IN f[x] + SumOver(f, S \ {x})

PendingKeys == FlushIds \X InstanceIds
NoPending == [k \in PendingKeys |-> 0]
ZeroFlush == [f \in FlushIds |-> 0]
ZeroIds == [i \in InstanceIds |-> 0]
NoCalls == [p \in InstanceIds \X InstanceIds |-> <<>>]

\* Sequences of distinct ids, the id lists the service passes to Flush.
IdLists(S) ==
  UNION {{s \in [1..n -> S] : \A i, j \in 1..n : i # j => s[i] # s[j]} :
         n \in 0..MaxIdsPerFlush}

\* ------------------------------------------------ connection state machine
\* The part of the producer the connection handlers read and write:
\* c.state is state_, c.backoff is connection_backoff_ms_, c.path collects
\* the values state_ takes, c.failed the DCHECKs that found another state.
ResetConnectionBackoff == kInitialConnectionBackoffMs

\* Faulty variant of IncreaseConnectionBackoff: the cap is forgotten.
IncreaseConnectionBackoffUncapped(backoff) == backoff * 2

\* connection_backoff_ms_ is a uint32_t that never exceeds
\* kMaxConnectionBackoffMs on entry, so the doubling cannot wrap.
IncreaseConnectionBackoff(backoff) ==
  LET doubled == backoff * 2
  IN IF doubled > kMaxConnectionBackoffMs THEN kMaxConnectionBackoffMs
     ELSE doubled

DCheck(c, ok, name) == IF ok THEN c.failed ELSE c.failed \cup {name}

SetState(c, s) == [c EXCEPT !.state = s, !.path = Append(@, s)]

Connect(c) ==
  SetState([c EXCEPT !.failed = DCheck(c, c.state = "NotConnected", "Connect")],
           "Connecting")

ConnectWithRetries(c) ==
  LET checked == [c EXCEPT !.failed =
                    DCheck(c, c.state = "NotStarted", "ConnectWithRetries")]
      reset == [SetState(checked, "NotConnected")
                  EXCEPT !.backoff = ResetConnectionBackoff]
  IN Connect(reset)

OnConnectState(c) ==
  [SetState([c EXCEPT !.failed = DCheck(c, c.state = "Connecting", "OnConnect")],
            "Connected")
     EXCEPT !.backoff = ResetConnectionBackoff]

\* Faulty variant of OnDisconnectRetry: state_ is left at kConnecting.
OnDisconnectRetryKeepsState(c) ==
  [c EXCEPT !.backoff = IncreaseConnectionBackoff(c.backoff)]

\* OnDisconnect() when state_ != kConnected.
OnDisconnectRetry(c) ==
  [SetState(c, "NotConnected")
     EXCEPT !.backoff = IncreaseConnectionBackoff(c.backoff)]

\* The producer right after `new (this) ProbesProducer()`.
Constructed(c) == SetState(c, "NotStarted")

Conn == [state |-> state, backoff |-> connection_backoff_ms,
         path |-> <<state>>, failed |-> dcheck_failed]

SetConn(c) ==
  /\ state' = c.state
  /\ connection_backoff_ms' = c.backoff
  /\ state_path' = c.path
  /\ dcheck_failed' = c.failed

data_vars == <<data_sources, session_data_sources, watchdogs, pending_flushes,
               ftrace, ftrace_creation_failed>>
service_vars == <<next_instance_id, next_flush_id>>
flush_vars == <<flush_timeouts, callbacks, sync_acked>>
notify_vars == <<flush_complete, started_notified, stopped_notified>>

\* ------------------------------------------------------ windowed sample ring
\* (src/base/watchdog_posix.cc)  A WindowedInterval as constructed: no
\* buffer, capacity 0, not filled.
WindowedInterval ==
  [buffer |-> <<>>, position |-> 0, size |-> 0, filled |-> FALSE]

\* RSS samples (the values of the self-abort scenario), and the one used
\* where only the number of samples matters.
Samples == {50, 80, 120, 200}
ResidentSetSize == 120

\* WindowedInterval::Reset(new_size): a zeroed buffer of the new capacity.
Reset(w, new_size) ==
  [w EXCEPT !.position = 0, !.size = new_size,
            !.buffer = [i \in 1..new_size |-> 0]]

\* WindowedInterval::Push(sample); the value returned is filled_ of the
\* result.  buffer_[position_] is buffer[position + 1] here.
Push(w, sample) ==
  LET position == (w.position + 1) % w.size
  IN [w EXCEPT !.buffer[w.position + 1] = sample,
               !.position = position,
               !.filled = w.filled \/ position = 0]

\* MeanForArray: the uint64_t total is divided by size before the result is
\* converted to double, so the double holds the integer quotient.  (The
\* samples drawn keep the total far below 2^64.)
MeanForArray(array, size) == SumOver(array, 1..size) \div size

Mean(w) == MeanForArray(w.buffer, w.size)

\* buffer_[position_] and buffer_[(position_ + size_ - 1) % size_].
OldestWhenFull(w) == w.buffer[w.position + 1]
NewestWhenFull(w) == w.buffer[((w.position + w.size - 1) % w.size) + 1]

\* The value a constructed producer gives ftrace_creation_failed_.
FtraceCreationFailedInitially == FALSE

\* A Watchdog as Watchdog(polling_interval_ms) constructs it: no thread,
\* quit_ set (Start() and the destructor DCHECK it while no thread is
\* joinable), both limits 0 and both rings without capacity.
WatchdogConstructed(polling) ==
  /\ polling_interval_ms = polling
  /\ memory_limit_bytes = 0
  /\ cpu_limit_percentage = 0
  /\ window = WindowedInterval
  /\ cpu_window = WindowedInterval
  /\ quit = TRUE
  /\ thread_joinable = FALSE
  /\ mutex = Null
  /\ worker_pc = "none"
  /\ main_pc = "idle"
  /\ main_arg = 0
  /\ cpu_time = 0
  /\ signals = 0
  /\ check_failed = FALSE
  /\ threads_started = 0
  /\ memory_window_ms = 0
  /\ cpu_window_ms = 0

\* The process at start: a constructed producer, nothing posted, and the
\* watchdog constructed with the given polling interval.
ProcessStart(polling) ==
  /\ state = "NotStarted"
  /\ connection_backoff_ms = 0
  /\ socket_name = Null
  /\ task_runner = Null
  /\ endpoint = Null
  /\ data_sources = EmptyMap
  /\ session_data_sources = EmptyMap
  /\ watchdogs = EmptyMap
  /\ pending_flushes = NoPending
  /\ ftrace = FALSE
  /\ ftrace_creation_failed = FtraceCreationFailedInitially
  /\ epoch = 0
  /\ restart_posted = FALSE
  /\ reconnect_posted = FALSE
  /\ flush_timeouts = {}
  /\ callbacks = EmptyMap
  /\ sync_acked = {}
  /\ next_instance_id = 1
  /\ next_flush_id = 1
  /\ ipc = "idle"
  /\ flush_complete = ZeroFlush
  /\ started_notified = ZeroIds
  /\ stopped_notified = ZeroIds
  /\ scheduled_delays = <<>>
  /\ state_path = <<"NotStarted">>
  /\ delivered = NoCalls
  /\ stale_runs = {}
  /\ dcheck_failed = {}
  /\ pushed = <<>>
  /\ push_result = <<>>
  /\ trigger_tasks = 0
  /\ triggers_sent = 0
  /\ trigger_failures = 0
  /\ WatchdogConstructed(polling)

\* Watchdog::GetInstance() constructs the process-wide watchdog with
\* kDefaultPollingInterval.
Init == ProcessStart(kDefaultPollingInterval)

\* main() starts the producer: ConnectWithRetries(socket, task_runner).
StartProducer(sock) ==
  /\ ipc = "idle"
  /\ SetConn(ConnectWithRetries(Conn))
  /\ socket_name' = sock
  /\ task_runner' = TheTaskRunner
  /\ endpoint' = "ipc"
  /\ ipc' = "connecting"
  /\ scheduled_delays' = <<>>
  /\ delivered' = NoCalls
  /\ UNCHANGED <<ring_vars, trigger_vars, watchdog_vars>>
  /\ stale_runs' = {}
  /\ UNCHANGED <<data_vars, epoch, restart_posted, reconnect_posted,
                 flush_vars, service_vars, notify_vars>>

\* The service accepted the connection.
OnConnect ==
  /\ ipc = "connecting"
  /\ ipc' = "connected"
  /\ SetConn(OnConnectState(Conn))
  /\ scheduled_delays' = <<>>
  /\ delivered' = NoCalls
  /\ UNCHANGED <<ring_vars, trigger_vars, watchdog_vars>>
  /\ stale_runs' = {}
  /\ UNCHANGED <<socket_name, task_runner, endpoint, data_vars, epoch,
                 restart_posted, reconnect_posted, flush_vars, service_vars,
                 notify_vars>>

\* The connection attempt failed, or the established connection dropped.
OnDisconnect ==
  /\ ipc \in {"connecting", "connected"}
  /\ ipc = "connecting" => Len(scheduled_delays) < MaxFailures
  /\ ipc = "connected" => epoch < MaxRestarts
  /\ ipc' = "closed"
  /\ LET checked == [Conn EXCEPT !.failed =
                       DCheck(Conn, state \in {"Connected", "Connecting"},
                              "OnDisconnect")]
     IN IF state = "Connected"
        THEN /\ SetConn(checked)
             /\ restart_posted' = TRUE
             /\ UNCHANGED <<reconnect_posted, scheduled_delays>>
        ELSE LET c == OnDisconnectRetry(checked)
             IN /\ SetConn(c)
                /\ reconnect_posted' = TRUE
                /\ scheduled_delays' = Append(scheduled_delays, c.backoff)
                /\ UNCHANGED restart_posted
  /\ delivered' = NoCalls
  /\ UNCHANGED <<ring_vars, trigger_vars, watchdog_vars>>
  /\ stale_runs' = {}
  /\ UNCHANGED <<socket_name, task_runner, endpoint, data_vars, epoch,
                 flush_vars, service_vars, notify_vars>>

\* The delayed task posted by OnDisconnect: [this] { this->Connect(); }.
ConnectTask ==
  /\ reconnect_posted
  /\ reconnect_posted' = FALSE
  /\ SetConn(Connect(Conn))
  /\ endpoint' = "ipc"
  /\ ipc' = "connecting"
  /\ delivered' = NoCalls
  /\ UNCHANGED <<ring_vars, trigger_vars, watchdog_vars>>
  /\ stale_runs' = {}
  /\ UNCHANGED <<socket_name, task_runner, data_vars, epoch, restart_posted,
                 flush_vars, service_vars, notify_vars, scheduled_delays>>

\* Faulty variant of Reconstruct: the pending-flush table survives the restart.
ReconstructKeepsPending(m) ==
  [data_sources |-> EmptyMap, session_data_sources |-> EmptyMap,
   watchdogs |-> EmptyMap, pending_flushes |-> m.pending_flushes,
   ftrace |-> FALSE,
   ftrace_creation_failed |-> FtraceCreationFailedInitially]

\* Faulty variant of Reconstruct: the fatal timers survive the restart.
ReconstructKeepsTimers(m) ==
  [data_sources |-> EmptyMap, session_data_sources |-> EmptyMap,
   watchdogs |-> m.watchdogs, pending_flushes |-> NoPending,
   ftrace |-> FALSE,
   ftrace_creation_failed |-> FtraceCreationFailedInitially]

\* The members of a producer that ~ProbesProducer() destroyed and
\* `new (this) ProbesProducer()` constructed again: every container is empty.
Reconstruct(m) ==
  [data_sources |-> EmptyMap, session_data_sources |-> EmptyMap,
   watchdogs |-> EmptyMap, pending_flushes |-> NoPending,
   ftrace |-> FALSE,
   ftrace_creation_failed |-> FtraceCreationFailedInitially]

Members == [data_sources |-> data_sources,
            session_data_sources |-> session_data_sources,
            watchdogs |-> watchdogs, pending_flushes |-> pending_flushes,
            ftrace |-> ftrace,
            ftrace_creation_failed |-> ftrace_creation_failed]

\* The task posted by OnDisconnect: [this] { this->Restart(); }.  The
\* destructor and the constructor leave a fresh producer (every member at
\* its initial value, weak pointers of the old one invalidated), on which
\* ConnectWithRetries runs with the saved socket name and task runner.
Restart ==
  /\ restart_posted
  /\ restart_posted' = FALSE
  /\ epoch' = epoch + 1
  /\ SetConn(ConnectWithRetries(Constructed(Conn)))
  /\ socket_name' = socket_name
  /\ task_runner' = task_runner
  /\ endpoint' = "ipc"
  /\ ipc' = "connecting"
  /\ LET m == Reconstruct(Members)
     IN /\ data_sources' = m.data_sources
        /\ session_data_sources' = m.session_data_sources
        /\ watchdogs' = m.watchdogs
        /\ pending_flushes' = m.pending_flushes
        /\ ftrace' = m.ftrace
        /\ ftrace_creation_failed' = m.ftrace_creation_failed
  /\ next_instance_id' = 1
  /\ next_flush_id' = 1
  /\ flush_complete' = ZeroFlush
  /\ started_notified' = ZeroIds
  /\ stopped_notified' = ZeroIds
  /\ scheduled_delays' = <<>>
  \* The callbacks and timeout tasks of the destroyed producer stay where
  \* they are held; their weak pointer is dead, so the run count that bounds
  \* a live callback is no longer kept for them.
  /\ callbacks' = [k \in DOMAIN callbacks |-> 0]
  /\ sync_acked' = {}
  /\ delivered' = NoCalls
  /\ UNCHANGED <<ring_vars, trigger_vars, watchdog_vars>>
  /\ stale_runs' = {}
  /\ UNCHANGED <<reconnect_posted, flush_timeouts>>

\* ------------------------------------------------------ data-source registry
\* An instance: its descriptor, tracing_session_id and started flag, the
\* number of times its Start() was called, on_demand_dumps_enabled() of a
\* process-stats instance and the metadata of a ftrace instance.  A
\* ProbesDataSource* held by session_data_sources_ is modelled by the id of
\* the instance it points to.
NoMetadata == [pids |-> {}, rename_pids |-> {}, inode_and_device |-> {}]
NewInstance(descriptor, session_id) ==
  [descriptor |-> descriptor, tracing_session_id |-> session_id,
   started |-> FALSE, start_calls |-> 0,
   on_demand_dumps_enabled |-> FALSE, metadata |-> NoMetadata]
SessionKeys == kAllDataSources \X InstanceIds
NoEntries == [k \in SessionKeys |-> 0]
\* The null unique_ptr a factory returns when it creates nothing.
NoInstance == NewInstance("none", 0)

\* CreateDSInstance<FtraceDataSource>: f.ftrace is ftrace_ != nullptr,
\* f.failed is ftrace_creation_failed_; create_ok and add_ok are the outcomes
\* of FtraceController::Create and FtraceController::AddDataSource.
\* FtraceController::Create is called when f.failed and f.ftrace are both
\* false, and in no other case.
CreateFtraceInstance(f, session_id, create_ok, add_ok) ==
  IF f.failed THEN [f EXCEPT !.ds = NoInstance]
  ELSE IF ~f.ftrace /\ ~create_ok
       THEN [ftrace |-> FALSE, failed |-> TRUE, ds |-> NoInstance]
  ELSE IF ~add_ok
       THEN [ftrace |-> TRUE, failed |-> f.failed, ds |-> NoInstance]
  ELSE [ftrace |-> TRUE, failed |-> f.failed,
        ds |-> NewInstance(FtraceDescriptor, session_id)]

\* The factories of the other kinds always return an instance.
CreateOtherInstance(f, name, session_id) ==
  [f EXCEPT !.ds = NewInstance(name, session_id)]

\* Faulty variant of CreateDSInstance: a name that matches no descriptor
\* falls through to the factory of the last table entry looked at.
CreateDSInstanceAnyName(f, name, session_id, create_ok, add_ok) ==
  IF name = FtraceDescriptor
  THEN CreateFtraceInstance(f, session_id, create_ok, add_ok)
  ELSE CreateOtherInstance(f, ProcessStatsDescriptor, session_id)

\* The loop over kAllDataSources in SetupDataSource.
CreateDSInstance(f, name, session_id, create_ok, add_ok) ==
  IF name \notin kAllDataSources THEN [f EXCEPT !.ds = NoInstance]
  ELSE IF name = FtraceDescriptor
       THEN CreateFtraceInstance(f, session_id, create_ok, add_ok)
  ELSE CreateOtherInstance(f, name, session_id)

\* session_data_sources_[session_id].emplace(descriptor, data_source.get())
SessionEmplace(by_session, session_id, descriptor, id) ==
  LET old == IF session_id \in DOMAIN by_session THEN by_session[session_id]
             ELSE NoEntries
  IN Put(by_session, session_id,
         [old EXCEPT ![<<descriptor, id>>] = @ + 1])

\* Faulty variant of SessionErase: the entry of the stopped instance is left behind.
SessionEraseKeepsEntry(by_session, session_id, descriptor, id) == by_session

\* The equal_range loop of StopDataSource: erase the first entry under the
\* descriptor that points to the instance; drop the session once it is empty.
SessionErase(by_session, session_id, descriptor, id) ==
  IF session_id \notin DOMAIN by_session THEN by_session
  ELSE IF by_session[session_id][<<descriptor, id>>] = 0 THEN by_session
  ELSE LET erased == [by_session[session_id]
                        EXCEPT ![<<descriptor, id>>] = @ - 1]
       IN IF erased = NoEntries THEN Remove(by_session, session_id)
          ELSE Put(by_session, session_id, erased)

\* watchdogs_.emplace(instance_id, timer): keeps an existing entry.
WatchdogEmplace(timers, id, timeout) ==
  IF id \in DOMAIN timers THEN timers ELSE Put(timers, id, timeout)

\* uint32_t timeout = 5000 + 2 * config.trace_duration_ms(): unsigned
\* 32-bit arithmetic, the carry out of the high half is lost.
FatalTimeout(trace_duration_ms) ==
  LET low == 5000 + 2 * trace_duration_ms[2]
      high == 2 * trace_duration_ms[1] + low \div Half
  IN <<high % Half, low % Half>>

\* Ids the service has used on this connection (set up, failed or stopped).
UsedIds == 1..(next_instance_id - 1)

\* on_demand is what the config makes a new process-stats instance answer
\* to on_demand_dumps_enabled().
SetupDataSource(name, session_id, create_ok, add_ok, on_demand) ==
  /\ ipc = "connected"
  /\ LET instance_id == next_instance_id
         made == CreateDSInstance([ftrace |-> ftrace,
                                   failed |-> ftrace_creation_failed,
                                   ds |-> NoInstance],
                                  name, session_id, create_ok, add_ok)
     IN /\ next_instance_id' = instance_id + 1
        /\ ftrace' = made.ftrace
        /\ ftrace_creation_failed' = made.failed
        /\ dcheck_failed' =
             IF instance_id \in DOMAIN data_sources
             THEN dcheck_failed \cup {"SetupDataSource"} ELSE dcheck_failed
        /\ IF made.ds = NoInstance
           THEN UNCHANGED <<data_sources, session_data_sources>>
           ELSE /\ session_data_sources' =
                     SessionEmplace(session_data_sources, session_id,
                                    made.ds.descriptor, instance_id)
                /\ data_sources' =
                     Put(data_sources, instance_id,
                         [made.ds EXCEPT !.on_demand_dumps_enabled =
                            on_demand /\ name = ProcessStatsDescriptor])
  /\ state_path' = <<state>>
  /\ delivered' = NoCalls
  /\ UNCHANGED <<ring_vars, trigger_vars, watchdog_vars>>
  /\ stale_runs' = {}
  /\ UNCHANGED <<state, connection_backoff_ms, socket_name, task_runner,
                 endpoint, watchdogs, pending_flushes, epoch, restart_posted,
                 reconnect_posted, flush_vars, next_flush_id, ipc,
                 notify_vars, scheduled_delays>>

\* Faulty variant of StartInstance: the early return for a started instance
\* is missing.
StartInstanceAgain(r, instance_id, trace_duration_ms) ==
  IF instance_id \notin DOMAIN r.data_sources THEN r
  ELSE [data_sources |->
          [r.data_sources EXCEPT ![instance_id].started = TRUE,
                                 ![instance_id].start_calls = @ + 1],
        watchdogs |->
          IF trace_duration_ms # Uint32(0)
          THEN WatchdogEmplace(r.watchdogs, instance_id,
                               FatalTimeout(trace_duration_ms))
          ELSE r.watchdogs,
        started_notified |->
          [r.started_notified EXCEPT ![instance_id] = @ + 1]]

\* The body of StartDataSource on r.data_sources (data_sources_),
\* r.watchdogs (watchdogs_) and r.started_notified (the
\* NotifyDataSourceStarted calls the endpoint received).
StartInstance(r, instance_id, trace_duration_ms) ==
  IF instance_id \notin DOMAIN r.data_sources THEN r
  ELSE IF r.data_sources[instance_id].started THEN r
  ELSE [data_sources |->
          [r.data_sources EXCEPT ![instance_id].started = TRUE,
                                 ![instance_id].start_calls = @ + 1],
        watchdogs |->
          IF trace_duration_ms # Uint32(0)
          THEN WatchdogEmplace(r.watchdogs, instance_id,
                               FatalTimeout(trace_duration_ms))
          ELSE r.watchdogs,
        started_notified |->
          [r.started_notified EXCEPT ![instance_id] = @ + 1]]

StartDataSource(instance_id, trace_duration_ms) ==
  /\ ipc = "connected"
  /\ instance_id \in UsedIds
  /\ LET r == StartInstance([data_sources |-> data_sources,
                             watchdogs |-> watchdogs,
                             started_notified |-> started_notified],
                            instance_id, trace_duration_ms)
     IN /\ data_sources' = r.data_sources
        /\ watchdogs' = r.watchdogs
        /\ started_notified' = r.started_notified
  /\ state_path' = <<state>>
  /\ delivered' = NoCalls
  /\ UNCHANGED <<ring_vars, trigger_vars, watchdog_vars>>
  /\ stale_runs' = {}
  /\ UNCHANGED <<state, connection_backoff_ms, socket_name, task_runner,
                 endpoint, session_data_sources, pending_flushes, ftrace,
                 ftrace_creation_failed, runner_vars, flush_complete,
                 stopped_notified, scheduled_delays, dcheck_failed>>

\* Faulty variant of StopInstance: watchdogs_.erase(id) is missing.
StopInstanceKeepsTimer(r, id) ==
  IF id \notin DOMAIN r.data_sources THEN r
  ELSE LET data_source == r.data_sources[id]
       IN [stopped_notified |-> [r.stopped_notified EXCEPT ![id] = @ + 1],
           session_data_sources |->
             SessionErase(r.session_data_sources,
                          data_source.tracing_session_id,
                          data_source.descriptor, id),
           data_sources |-> Remove(r.data_sources, id),
           watchdogs |-> r.watchdogs]

\* The body of StopDataSource on r.data_sources (data_sources_),
\* r.session_data_sources, r.watchdogs and r.stopped_notified (the
\* NotifyDataSourceStopped calls the endpoint received).  (The extra
\* Flush(0, [] {}) that StopDataSource issues to a metatrace instance carries
\* an empty callback and touches no producer member.)
StopInstance(r, id) ==
  IF id \notin DOMAIN r.data_sources THEN r
  ELSE LET data_source == r.data_sources[id]
       IN [stopped_notified |-> [r.stopped_notified EXCEPT ![id] = @ + 1],
           session_data_sources |->
             SessionErase(r.session_data_sources,
                          data_source.tracing_session_id,
                          data_source.descriptor, id),
           data_sources |-> Remove(r.data_sources, id),
           watchdogs |-> Remove(r.watchdogs, id)]

StopDataSource(id) ==
  /\ ipc = "connected"
  /\ id \in UsedIds
  /\ LET r == StopInstance([data_sources |-> data_sources,
                            session_data_sources |-> session_data_sources,
                            watchdogs |-> watchdogs,
                            stopped_notified |-> stopped_notified], id)
     IN /\ data_sources' = r.data_sources
        /\ session_data_sources' = r.session_data_sources
        /\ watchdogs' = r.watchdogs
        /\ stopped_notified' = r.stopped_notified
  /\ state_path' = <<state>>
  /\ delivered' = NoCalls
  /\ UNCHANGED <<ring_vars, trigger_vars, watchdog_vars>>
  /\ stale_runs' = {}
  /\ UNCHANGED <<state, connection_backoff_ms, socket_name, task_runner,
                 endpoint, pending_flushes, ftrace, ftrace_creation_failed,
                 runner_vars, flush_complete, started_notified,
                 scheduled_delays, dcheck_failed>>

\* --------------------------------------------------------- flush coordinator
\* fl.pending is pending_flushes_, fl.complete counts the
\* NotifyFlushComplete calls the endpoint received.
PendingCount(pending, flush_request_id) ==
  SumOver(pending, {k \in PendingKeys : k[1] = flush_request_id})

\* pending_flushes_.emplace(flush_request_id, ds_id)
PendingEmplace(pending, flush_request_id, ds_id) ==
  [pending EXCEPT ![<<flush_request_id, ds_id>>] = @ + 1]

\* The equal_range loop of OnDataSourceFlushComplete: erase one matching entry.
PendingEraseOne(pending, flush_request_id, ds_id) ==
  IF pending[<<flush_request_id, ds_id>>] > 0
  THEN [pending EXCEPT ![<<flush_request_id, ds_id>>] = @ - 1]
  ELSE pending

\* pending_flushes_.erase(flush_request_id)
PendingEraseAll(pending, flush_request_id) ==
  [k \in PendingKeys |-> IF k[1] = flush_request_id THEN 0 ELSE pending[k]]

NotifyFlushComplete(complete, flush_request_id) ==
  [complete EXCEPT ![flush_request_id] = @ + 1]

OnDataSourceFlushComplete(fl, flush_request_id, ds_id) ==
  LET erased == PendingEraseOne(fl.pending, flush_request_id, ds_id)
  IN IF PendingCount(erased, flush_request_id) > 0
     THEN [fl EXCEPT !.pending = erased]
     ELSE [fl EXCEPT !.pending = erased,
                     !.complete = NotifyFlushComplete(@, flush_request_id)]

\* Faulty variant of OnFlushTimeout: notifies without erasing the pending entries.
OnFlushTimeoutKeepsEntries(fl, flush_request_id) ==
  IF PendingCount(fl.pending, flush_request_id) = 0 THEN fl
  ELSE [fl EXCEPT !.complete = NotifyFlushComplete(@, flush_request_id)]

\* Faulty variant of OnFlushTimeout: the early return for an acked flush is missing.
OnFlushTimeoutAlwaysNotifies(fl, flush_request_id) ==
  [fl EXCEPT !.pending = PendingEraseAll(@, flush_request_id),
             !.complete = NotifyFlushComplete(@, flush_request_id)]

OnFlushTimeout(fl, flush_request_id) ==
  IF PendingCount(fl.pending, flush_request_id) = 0 THEN fl
  ELSE [fl EXCEPT !.pending = PendingEraseAll(@, flush_request_id),
                  !.complete = NotifyFlushComplete(@, flush_request_id)]

\* The weak_this a producer of incarnation e handed out: the weak pointer
\* factory of a destroyed producer invalidates every pointer it gave away.
WeakThisAlive(e) == e = epoch

\* Faulty variant of flush_callback: weak_this is used without being tested.
flush_callbackUnchecked(fl, weak_this, flush_request_id, ds_id) ==
  OnDataSourceFlushComplete(fl, flush_request_id, ds_id)

\* The lambda Flush hands to the instance; weak_this is the pointer's test.
flush_callback(fl, weak_this, flush_request_id, ds_id) ==
  IF weak_this THEN OnDataSourceFlushComplete(fl, flush_request_id, ds_id)
  ELSE fl

\* The lambda Flush posts with kFlushTimeoutMs.
FlushTimeoutCallback(fl, weak_this, flush_request_id) ==
  IF weak_this THEN OnFlushTimeout(fl, flush_request_id) ELSE fl

\* Faulty variant of Flushable: the started flag is not looked at.
FlushableIgnoringStarted(ds_id) == ds_id \in DOMAIN data_sources

\* An id of the list is flushed when it resolves to a started instance.
Flushable(ds_id) ==
  ds_id \in DOMAIN data_sources /\ data_sources[ds_id].started

\* The fan-out loop of Flush from position i on.  fl additionally carries
\* fl.queued (flush_queued) and fl.called, the ids whose instance received
\* Flush(flush_request_id, flush_callback); sync[i] says that the instance at
\* position i runs the callback before its Flush returns.
RECURSIVE FlushLoop(_, _, _, _, _)
FlushLoop(fl, flush_request_id, ids, sync, i) ==
  IF i > Len(ids) THEN fl
  ELSE IF ~Flushable(ids[i])
       THEN FlushLoop(fl, flush_request_id, ids, sync, i + 1)
  ELSE LET queued == [fl EXCEPT
                        !.pending = PendingEmplace(@, flush_request_id, ids[i]),
                        !.queued = TRUE,
                        !.called = @ \cup {ids[i]}]
           flushed == IF sync[i]
                      THEN flush_callback(queued, WeakThisAlive(epoch),
                                          flush_request_id, ids[i])
                      ELSE queued
       IN FlushLoop(flushed, flush_request_id, ids, sync, i + 1)

Flush(ids, sync) ==
  /\ ipc = "connected"
  /\ next_flush_id <= MaxFlushes
  /\ LET flush_request_id == next_flush_id
         fl == FlushLoop([pending |-> pending_flushes,
                          complete |-> flush_complete,
                          queued |-> FALSE, called |-> {}],
                         flush_request_id, ids, sync, 1)
         held == {<<epoch, flush_request_id, id>> : id \in fl.called}
         ran == {<<epoch, flush_request_id, ids[i]>> :
                   i \in {j \in 1..Len(ids) : sync[j] /\ Flushable(ids[j])}}
     IN /\ next_flush_id' = flush_request_id + 1
        /\ pending_flushes' = fl.pending
        /\ callbacks' = [k \in (DOMAIN callbacks) \cup held |->
                           IF k \in held THEN (IF k \in ran THEN 1 ELSE 0)
                           ELSE callbacks[k]]
        /\ sync_acked' = sync_acked \cup ran
        /\ IF ~fl.queued
           THEN /\ flush_complete' =
                     NotifyFlushComplete(fl.complete, flush_request_id)
                /\ UNCHANGED flush_timeouts
           ELSE /\ flush_complete' = fl.complete
                /\ flush_timeouts' =
                     flush_timeouts \cup {<<epoch, flush_request_id>>}
  /\ state_path' = <<state>>
  /\ delivered' = NoCalls
  /\ UNCHANGED <<ring_vars, trigger_vars, watchdog_vars>>
  /\ stale_runs' = {}
  /\ UNCHANGED <<state, connection_backoff_ms, socket_name, task_runner,
                 endpoint, data_sources, session_data_sources, watchdogs,
                 ftrace, ftrace_creation_failed, epoch, restart_posted,
                 reconnect_posted, next_instance_id, ipc, started_notified,
                 stopped_notified, scheduled_delays, dcheck_failed>>

\* An instance runs a flush callback it holds: if (weak_this)
\* weak_this->OnDataSourceFlushComplete(flush_request_id, ds_id).
FlushCallback(k) ==
  /\ k \in DOMAIN callbacks
  /\ callbacks[k] < MaxAcks
  /\ LET fl == flush_callback([pending |-> pending_flushes,
                                complete |-> flush_complete],
                               WeakThisAlive(k[1]), k[2], k[3])
     IN /\ pending_flushes' = fl.pending
        /\ flush_complete' = fl.complete
  /\ IF WeakThisAlive(k[1])
     THEN /\ callbacks' = [callbacks EXCEPT ![k] = @ + 1]
          /\ stale_runs' = {}
     ELSE /\ UNCHANGED callbacks
          /\ stale_runs' =
               IF PendingCount(pending_flushes, k[2]) > 0
               THEN {"ack"} ELSE {}
  /\ state_path' = <<state>>
  /\ delivered' = NoCalls
  /\ UNCHANGED <<ring_vars, trigger_vars, watchdog_vars>>
  /\ UNCHANGED <<state, connection_backoff_ms, socket_name, task_runner,
                 endpoint, data_sources, session_data_sources, watchdogs,
                 ftrace, ftrace_creation_failed, epoch, restart_posted,
                 reconnect_posted, flush_timeouts, sync_acked, service_vars,
                 ipc, started_notified, stopped_notified, scheduled_delays,
                 dcheck_failed>>

\* The delayed task posted by Flush: if (weak_this)
\* weak_this->OnFlushTimeout(flush_request_id).
FlushTimeoutTask(t) ==
  /\ t \in flush_timeouts
  /\ flush_timeouts' = flush_timeouts \ {t}
  /\ LET fl == FlushTimeoutCallback([pending |-> pending_flushes,
                                      complete |-> flush_complete],
                                     WeakThisAlive(t[1]), t[2])
     IN /\ pending_flushes' = fl.pending
        /\ flush_complete' = fl.complete
  /\ stale_runs' =
       IF ~WeakThisAlive(t[1]) /\ PendingCount(pending_flushes, t[2]) > 0
       THEN {"timeout"} ELSE {}
  /\ state_path' = <<state>>
  /\ delivered' = NoCalls
  /\ UNCHANGED <<ring_vars, trigger_vars, watchdog_vars>>
  /\ UNCHANGED <<state, connection_backoff_ms, socket_name, task_runner,
                 endpoint, data_sources, session_data_sources, watchdogs,
                 ftrace, ftrace_creation_failed, epoch, restart_posted,
                 reconnect_posted, callbacks, sync_acked, service_vars, ipc,
                 started_notified, stopped_notified, scheduled_delays,
                 dcheck_failed>>

\* ------------------------------------------------ ftrace metadata broadcast
\* What the ftrace controller collects into the metadata of a ftrace
\* instance between two broadcasts.
MetadataSamples ==
  {[pids |-> {100, 101}, rename_pids |-> {100},
    inode_and_device |-> {<<9, 42>>}],
   [pids |-> {101}, rename_pids |-> {}, inode_and_device |-> {}],
   [pids |-> {}, rename_pids |-> {100}, inode_and_device |-> {}]}

MergeMetadata(a, b) ==
  [pids |-> a.pids \cup b.pids,
   rename_pids |-> a.rename_pids \cup b.rename_pids,
   inode_and_device |-> a.inode_and_device \cup b.inode_and_device]

\* Faulty variant of EqualRange: the instances of every session are taken.
EqualRangeOfAllSessions(by_session, session_id, descriptor) ==
  {id \in InstanceIds :
     \E s \in DOMAIN by_session : by_session[s][<<descriptor, id>>] > 0}

\* ds_by_type.equal_range(&descriptor) on the map of one tracing session.
EqualRange(by_session, session_id, descriptor) ==
  {id \in InstanceIds : by_session[session_id][<<descriptor, id>>] > 0}

\* Faulty variant of ProcessStatsCalls: the seen pids go first.
ProcessStatsCallsPidsFirst(metadata) ==
  (IF metadata.pids # {}
   THEN <<[call |-> "OnPids", arg |-> metadata.pids]>> ELSE <<>>)
  \o (IF metadata.rename_pids # {}
      THEN <<[call |-> "OnRenamePids", arg |-> metadata.rename_pids]>>
      ELSE <<>>)

\* The calls one process-stats instance receives for one ftrace instance.
ProcessStatsCalls(metadata) ==
  (IF metadata.rename_pids # {}
   THEN <<[call |-> "OnRenamePids", arg |-> metadata.rename_pids]>>
   ELSE <<>>)
  \o (IF metadata.pids # {}
      THEN <<[call |-> "OnPids", arg |-> metadata.pids]>> ELSE <<>>)

\* The call one inode-file instance receives for one ftrace instance.
InodeFileCalls(metadata) ==
  <<[call |-> "OnInodes", arg |-> metadata.inode_and_device]>>

\* The ftrace instances whose metadata the loops take: started, in the
\* ft_range of their session.
BroadcastSources(ds, by_session) ==
  {ft \in InstanceIds :
     \E s \in DOMAIN by_session :
       ft \in EqualRange(by_session, s, FtraceDescriptor) /\ ds[ft].started}

\* The calls the loops make to instance `to` with the metadata of ftrace
\* instance ft.  (The order in which sessions and the entries of a range
\* are visited is not kept: an instance is in one session, and each pair
\* is handled once.)
MetadataCalls(ds, by_session, ft, to) ==
  IF \E s \in DOMAIN by_session :
       /\ ft \in EqualRange(by_session, s, FtraceDescriptor)
       /\ ds[ft].started
       /\ to \in EqualRange(by_session, s, ProcessStatsDescriptor)
       /\ ds[to].started /\ ds[to].on_demand_dumps_enabled
  THEN ProcessStatsCalls(ds[ft].metadata)
  ELSE IF \E s \in DOMAIN by_session :
            /\ ft \in EqualRange(by_session, s, FtraceDescriptor)
            /\ ds[ft].started
            /\ to \in EqualRange(by_session, s, InodeFileDescriptor)
            /\ ds[to].started
  THEN InodeFileCalls(ds[ft].metadata)
  ELSE <<>>

\* Faulty variant of ClearedMetadata: metadata->Clear() is missing.
ClearedMetadataNever(ds, by_session) == ds

\* metadata->Clear() at the end of each round of the ftrace loop.
ClearedMetadata(ds, by_session) ==
  [id \in DOMAIN ds |->
     IF id \in BroadcastSources(ds, by_session)
     THEN [ds[id] EXCEPT !.metadata = NoMetadata] ELSE ds[id]]

\* The ftrace controller reads the trace buffers and records what it saw in
\* the metadata of a ftrace instance it holds (the controller is not
\* constrained to started instances here).
CollectMetadata(id, md) ==
  /\ ftrace
  /\ id \in DOMAIN data_sources
  /\ data_sources[id].descriptor = FtraceDescriptor
  /\ data_sources' =
       [data_sources EXCEPT ![id].metadata = MergeMetadata(@, md)]
  /\ data_sources' # data_sources
  /\ state_path' = <<state>>
  /\ delivered' = NoCalls
  /\ UNCHANGED <<ring_vars, trigger_vars, watchdog_vars>>
  /\ UNCHANGED <<state, connection_backoff_ms, socket_name, task_runner,
                 endpoint, session_data_sources, watchdogs, pending_flushes,
                 ftrace, ftrace_creation_failed, runner_vars, notify_vars,
                 scheduled_delays, dcheck_failed, stale_runs>>

\* The controller's callback after it wrote into the data-source buffers.
OnFtraceDataWrittenIntoDataSourceBuffers ==
  /\ ftrace
  /\ delivered' =
       [p \in InstanceIds \X InstanceIds |->
          MetadataCalls(data_sources, session_data_sources, p[1], p[2])]
  /\ data_sources' = ClearedMetadata(data_sources, session_data_sources)
  /\ state_path' = <<state>>
  /\ UNCHANGED <<ring_vars, trigger_vars, watchdog_vars>>
  /\ UNCHANGED <<state, connection_backoff_ms, socket_name, task_runner,
                 endpoint, session_data_sources, watchdogs, pending_flushes,
                 ftrace, ftrace_creation_failed, runner_vars, notify_vars,
                 scheduled_delays, dcheck_failed, stale_runs>>

CallbackKeys == Epochs \X FlushIds \X InstanceIds
TimeoutKeys == Epochs \X FlushIds

Next ==
  \/ \E sock \in SocketNames : StartProducer(sock)
  \/ OnConnect
  \/ OnDisconnect
  \/ ConnectTask
  \/ Restart
  \/ \E name \in ConfigNames, session_id \in Sessions,
        create_ok \in BOOLEAN, add_ok \in BOOLEAN :
       /\ next_instance_id <= MaxInstances
       /\ SetupDataSource(name, session_id, create_ok, add_ok, FALSE)
  \/ \E id \in InstanceIds, d \in TraceDurations : StartDataSource(id, d)
  \/ \E id \in InstanceIds : StopDataSource(id)
  \/ \E ids \in IdLists(UsedIds) :
       \E sync \in [1..Len(ids) -> BOOLEAN] : Flush(ids, sync)
  \/ \E k \in CallbackKeys : FlushCallback(k)
  \/ \E t \in TimeoutKeys : FlushTimeoutTask(t)

Spec == Init /\ [][Next]_vars

\* The producer with its ftrace controller at work: the registry handlers,
\* the controller collecting metadata and the broadcast, for configs of the
\* three kinds the broadcast looks at.
PeerNext ==
  \/ \E sock \in SocketNames : StartProducer(sock)
  \/ OnConnect
  \/ \E name \in PeerConfigNames, session_id \in Sessions,
        on_demand \in BOOLEAN :
       /\ next_instance_id <= MaxPeerInstances
       /\ SetupDataSource(name, session_id, TRUE, TRUE, on_demand)
  \/ \E id \in InstanceIds : StartDataSource(id, Uint32(0))
  \/ \E id \in InstanceIds : StopDataSource(id)
  \/ \E id \in InstanceIds, md \in MetadataSamples : CollectMetadata(id, md)
  \/ OnFtraceDataWrittenIntoDataSourceBuffers

PeerSpec == Init /\ [][PeerNext]_vars

\* The owner of the ring gives it a capacity (0 disables it).
ResetWindow(new_size) ==
  /\ window' = Reset(window, new_size)
  /\ pushed' = <<>>
  /\ push_result' = <<>>
  /\ UNCHANGED <<producer_vars, runner_vars, observed_vars, trigger_vars,
                 watchdog_vars>>

\* The owner pushes a sample; it does so only into a ring with a capacity.
PushSample(sample) ==
  /\ window.size > 0
  /\ Len(pushed) < MaxPushes
  /\ window' = Push(window, sample)
  /\ push_result' = <<window'.filled>>
  /\ pushed' = Append(pushed, sample)
  /\ UNCHANGED <<producer_vars, runner_vars, observed_vars, trigger_vars,
                 watchdog_vars>>

RingNext ==
  \/ \E new_size \in 0..MaxCapacity : ResetWindow(new_size)
  \/ \E sample \in Samples : PushSample(sample)

RingSpec == Init /\ [][RingNext]_vars

\* The registry on one connection, with configs of every trace duration.
TimerNext ==
  \/ \E sock \in SocketNames : StartProducer(sock)
  \/ OnConnect
  \/ \E name \in kAllDataSources, session_id \in Sessions :
       /\ next_instance_id <= MaxInstances
       /\ SetupDataSource(name, session_id, TRUE, TRUE, FALSE)
  \/ \E id \in InstanceIds, d \in TimerDurations : StartDataSource(id, d)
  \/ \E id \in InstanceIds : StopDataSource(id)

TimerSpec == Init /\ [][TimerNext]_vars

\* ------------------------------------------------------------- triggers
\* The task ActivateTrigger posts, on t.endpoint (endpoint_), t.sent (the
\* ActivateTriggers calls the endpoint received) and t.failures (the
\* kProbesProducerTriggerFail atoms logged).
TriggerTask(t) ==
  IF t.endpoint = Null THEN [t EXCEPT !.failures = @ + 1]
  ELSE [t EXCEPT !.sent = @ + 1]

\* ActivateTrigger(trigger): the task is posted on task_runner_.  Data
\* sources call it, so the producer has been started and task_runner_ is
\* set.
ActivateTrigger ==
  /\ task_runner # Null
  /\ trigger_tasks + triggers_sent + trigger_failures < MaxTriggers
  /\ trigger_tasks' = trigger_tasks + 1
  /\ state_path' = <<state>>
  /\ delivered' = NoCalls
  /\ UNCHANGED <<triggers_sent, trigger_failures>>
  /\ UNCHANGED <<producer_vars, runner_vars, flush_complete,
                 started_notified, stopped_notified, scheduled_delays,
                 dcheck_failed, stale_runs, ring_vars, watchdog_vars>>

\* The task runner runs a posted trigger task: [this, trigger] { ... }.
ActivateTriggerTask ==
  /\ trigger_tasks > 0
  /\ trigger_tasks' = trigger_tasks - 1
  /\ LET t == TriggerTask([endpoint |-> endpoint, sent |-> triggers_sent,
                           failures |-> trigger_failures])
     IN /\ triggers_sent' = t.sent
        /\ trigger_failures' = t.failures
  /\ state_path' = <<state>>
  /\ delivered' = NoCalls
  /\ UNCHANGED <<producer_vars, runner_vars, flush_complete,
                 started_notified, stopped_notified, scheduled_delays,
                 dcheck_failed, stale_runs, ring_vars, watchdog_vars>>

\* The connection state machine with triggers being activated.
TriggerNext ==
  \/ \E sock \in SocketNames : StartProducer(sock)
  \/ OnConnect
  \/ OnDisconnect
  \/ ConnectTask
  \/ Restart
  \/ ActivateTrigger
  \/ ActivateTriggerTask

TriggerSpec == Init /\ [][TriggerNext]_vars

\* ------------------------------------------------------ resource watchdog
\* (src/base/watchdog_posix.cc)  The thread that calls the watchdog ("main")
\* and the worker thread running ThreadMain share the members under mutex_.
\* A limit setter is two steps of main with the mutex held in between; the
\* worker holds the mutex from the return of wait_for to the next wait_for,
\* which is one step.
PollingIntervals == {1, 2}
\* Arguments the limit setters are called with.
MemoryLimits == {0, 50, 100}
CpuLimits == {0, 50, 101}
WindowsMs == {0, 1, 2, 3, 4}
\* Clock ticks the process consumes between two polls.
CpuTicks == {0, 50}
\* sysconf(_SC_CLK_TCK).
ClockTicksPerSecond == 100

IsMultipleOf(number, divisor) == number >= divisor /\ number % divisor = 0

\* Faulty variant of MutexFree: the lock is not looked at.
MutexFreeAlways(m) == TRUE

\* std::lock_guard / std::unique_lock on mutex_ can be taken.
MutexFree(m) == m = Null

\* kill(getpid(), SIGABRT) or a failed PERFETTO_CHECK ended the process.
Terminated == signals > 0 \/ check_failed

\* size_t size = limit == 0 ? 0 : window_ms / polling_interval_ms_ + 1.
WindowSize(limit, window_ms, polling) ==
  IF limit = 0 THEN 0 ELSE window_ms \div polling + 1

\* Watchdog::Start().
Start ==
  /\ ~Terminated
  /\ main_pc = "idle"
  /\ MutexFree(mutex)
  /\ IF thread_joinable
     THEN /\ dcheck_failed' =
               IF quit THEN dcheck_failed \cup {"Start"} ELSE dcheck_failed
          /\ UNCHANGED <<quit, thread_joinable, worker_pc, threads_started>>
     ELSE /\ dcheck_failed' =
               IF quit THEN dcheck_failed ELSE dcheck_failed \cup {"Start"}
          /\ quit' = FALSE
          /\ thread_joinable' = TRUE
          /\ worker_pc' = "open"
          /\ threads_started' = threads_started + 1
  /\ UNCHANGED <<polling_interval_ms, memory_limit_bytes,
                 cpu_limit_percentage, cpu_window, mutex, main_pc, main_arg,
                 cpu_time, signals, check_failed, memory_window_ms,
                 cpu_window_ms>>
  /\ UNCHANGED <<producer_vars, runner_vars, flush_complete,
                 started_notified, stopped_notified, scheduled_delays,
                 state_path, delivered, stale_runs, ring_vars, trigger_vars>>

\* SetMemoryLimit up to memory_window_bytes_.Reset(size): the lock is
\* taken, the window is checked and the ring gets its new capacity.  A
\* failed PERFETTO_CHECK ends the process with nothing changed.
SetMemoryLimitReset(bytes, window_ms) ==
  /\ ~Terminated
  /\ main_pc = "idle"
  /\ MutexFree(mutex)
  /\ IF IsMultipleOf(window_ms, polling_interval_ms) \/ bytes = 0
     THEN /\ mutex' = "main"
          /\ window' = Reset(window,
                             WindowSize(bytes, window_ms,
                                        polling_interval_ms))
          /\ pushed' = <<>>
          /\ push_result' = <<>>
          /\ main_pc' = "SetMemoryLimit"
          /\ main_arg' = bytes
          /\ memory_window_ms' = window_ms
          /\ UNCHANGED check_failed
     ELSE /\ check_failed' = TRUE
          /\ UNCHANGED <<mutex, ring_vars, main_pc, main_arg,
                         memory_window_ms>>
  /\ UNCHANGED <<polling_interval_ms, memory_limit_bytes,
                 cpu_limit_percentage, cpu_window, quit, thread_joinable,
                 worker_pc, cpu_time, signals, threads_started,
                 cpu_window_ms>>
  /\ UNCHANGED <<producer_vars, runner_vars, observed_vars, trigger_vars>>

\* The rest of SetMemoryLimit: memory_limit_bytes_ = bytes, then the lock
\* guard goes out of scope.
SetMemoryLimitStore ==
  /\ ~Terminated
  /\ main_pc = "SetMemoryLimit"
  /\ memory_limit_bytes' = main_arg
  /\ mutex' = Null
  /\ main_pc' = "idle"
  /\ main_arg' = 0
  /\ UNCHANGED <<polling_interval_ms, cpu_limit_percentage, cpu_window, quit,
                 thread_joinable, worker_pc, cpu_time, signals, check_failed,
                 threads_started, memory_window_ms, cpu_window_ms>>
  /\ UNCHANGED <<producer_vars, runner_vars, observed_vars, ring_vars,
                 trigger_vars>>

\* SetCpuLimit up to cpu_window_time_ticks_.Reset(size).
SetCpuLimitReset(percentage, window_ms) ==
  /\ ~Terminated
  /\ main_pc = "idle"
  /\ MutexFree(mutex)
  /\ IF /\ percentage <= 100
        /\ IsMultipleOf(window_ms, polling_interval_ms) \/ percentage = 0
     THEN /\ mutex' = "main"
          /\ cpu_window' = Reset(cpu_window,
                                 WindowSize(percentage, window_ms,
                                            polling_interval_ms))
          /\ main_pc' = "SetCpuLimit"
          /\ main_arg' = percentage
          /\ cpu_window_ms' = window_ms
          /\ UNCHANGED check_failed
     ELSE /\ check_failed' = TRUE
          /\ UNCHANGED <<mutex, cpu_window, main_pc, main_arg, cpu_window_ms>>
  /\ UNCHANGED <<polling_interval_ms, memory_limit_bytes,
                 cpu_limit_percentage, quit, thread_joinable, worker_pc,
                 cpu_time, signals, threads_started, memory_window_ms>>
  /\ UNCHANGED <<producer_vars, runner_vars, observed_vars, ring_vars,
                 trigger_vars>>

\* The rest of SetCpuLimit: cpu_limit_percentage_ = percentage, unlock.
SetCpuLimitStore ==
  /\ ~Terminated
  /\ main_pc = "SetCpuLimit"
  /\ cpu_limit_percentage' = main_arg
  /\ mutex' = Null
  /\ main_pc' = "idle"
  /\ main_arg' = 0
  /\ UNCHANGED <<polling_interval_ms, memory_limit_bytes, cpu_window, quit,
                 thread_joinable, worker_pc, cpu_time, signals, check_failed,
                 threads_started, memory_window_ms, cpu_window_ms>>
  /\ UNCHANGED <<producer_vars, runner_vars, observed_vars, ring_vars,
                 trigger_vars>>

\* CheckMemory on w.limit (memory_limit_bytes_) and w.window
\* (memory_window_bytes_); w.signals counts the SIGABRTs raised.
CheckMemory(w, rss_bytes) ==
  IF w.limit = 0 THEN w
  ELSE LET ring == Push(w.window, rss_bytes)
       IN [w EXCEPT !.window = ring,
                    !.signals = IF ring.filled /\ Mean(ring) > w.limit
                                THEN @ + 1 ELSE @]

\* WindowTimeForRingBuffer.
WindowTimeForRingBuffer(w, polling) == (w.size - 1) * polling

\* percentage > cpu_limit_percentage_ of CheckCpu, with
\* percentage = difference_ticks / ((window_ms / 1000.0) * CLK_TCK) * 100
\* compared after multiplying out the divisions.  A newest sample below the
\* oldest makes the uint64_t difference wrap to more than any limit allows.
CpuOverLimit(ring, limit, polling) ==
  LET newest == NewestWhenFull(ring)
      oldest == OldestWhenFull(ring)
  IN IF newest < oldest THEN TRUE
     ELSE (newest - oldest) * 100 * 1000 >
            limit * WindowTimeForRingBuffer(ring, polling)
                  * ClockTicksPerSecond

\* CheckCpu on w.limit (cpu_limit_percentage_) and w.window
\* (cpu_window_time_ticks_).
CheckCpu(w, cpu, polling) ==
  IF w.limit = 0 THEN w
  ELSE LET ring == Push(w.window, cpu)
       IN [w EXCEPT !.window = ring,
                    !.signals =
                      IF ring.filled /\ CpuOverLimit(ring, w.limit, polling)
                      THEN @ + 1 ELSE @]

\* ThreadMain up to the first wait_for: /proc/self/stat is opened (the
\* thread returns if that fails) and the lock is taken, which wait_for
\* releases again.
WorkerOpen(open_ok) ==
  /\ ~Terminated
  /\ worker_pc = "open"
  /\ open_ok => MutexFree(mutex)
  /\ worker_pc' = IF open_ok THEN "waiting" ELSE "returned"
  /\ UNCHANGED <<polling_interval_ms, memory_limit_bytes,
                 cpu_limit_percentage, cpu_window, quit, thread_joinable,
                 mutex, main_pc, main_arg, cpu_time, signals, check_failed,
                 threads_started, memory_window_ms, cpu_window_ms>>
  /\ UNCHANGED <<producer_vars, runner_vars, observed_vars, ring_vars,
                 trigger_vars>>

\* Faulty variant of QuitSeen: the loop does not look at quit_.
QuitSeenNever(q) == FALSE

\* if (quit_) return;
QuitSeen(q) == q

\* One round of the loop of ThreadMain: wait_for returns with the lock held
\* (timeout, notification or spurious wake-up), quit_ is tested, the stat
\* file is read (the thread returns if that fails), CheckMemory and
\* CheckCpu run, and the next wait_for releases the lock.  ticks is what
\* the process consumed since the last round.
WorkerPoll(read_ok, rss_bytes, ticks) ==
  /\ ~Terminated
  /\ worker_pc = "waiting"
  /\ MutexFree(mutex)
  /\ IF QuitSeen(quit) \/ ~read_ok
     THEN /\ worker_pc' = "returned"
          /\ UNCHANGED <<ring_vars, cpu_window, cpu_time, signals>>
     ELSE /\ memory_limit_bytes # 0 => Len(pushed) < MaxPushes
          /\ cpu_time + ticks <= MaxCpuTime
          /\ cpu_time' = cpu_time + ticks
          /\ LET m == CheckMemory([limit |-> memory_limit_bytes,
                                   window |-> window, signals |-> signals],
                                  rss_bytes)
                 c == CheckCpu([limit |-> cpu_limit_percentage,
                                window |-> cpu_window,
                                signals |-> m.signals],
                               cpu_time', polling_interval_ms)
             IN /\ window' = m.window
                /\ pushed' = IF memory_limit_bytes = 0 THEN pushed
                             ELSE Append(pushed, rss_bytes)
                /\ push_result' = IF memory_limit_bytes = 0 THEN push_result
                                  ELSE <<m.window.filled>>
                /\ cpu_window' = c.window
                /\ signals' = c.signals
          /\ UNCHANGED worker_pc
  /\ UNCHANGED <<polling_interval_ms, memory_limit_bytes,
                 cpu_limit_percentage, quit, thread_joinable, mutex, main_pc,
                 main_arg, check_failed, threads_started, memory_window_ms,
                 cpu_window_ms>>
  /\ UNCHANGED <<producer_vars, runner_vars, observed_vars, trigger_vars>>

\* ~Watchdog() up to thread_.join(): without a joinable thread it returns;
\* otherwise quit_ is set under the lock and exit_signal_ is notified.
DestroyWatchdog ==
  /\ ~Terminated
  /\ main_pc = "idle"
  /\ MutexFree(mutex)
  /\ IF ~thread_joinable
     THEN /\ dcheck_failed' =
               IF quit THEN dcheck_failed
               ELSE dcheck_failed \cup {"~Watchdog"}
          /\ main_pc' = "destroyed"
          /\ UNCHANGED quit
     ELSE /\ dcheck_failed' =
               IF quit THEN dcheck_failed \cup {"~Watchdog"}
               ELSE dcheck_failed
          /\ quit' = TRUE
          /\ main_pc' = "join"
  /\ UNCHANGED <<polling_interval_ms, memory_limit_bytes,
                 cpu_limit_percentage, cpu_window, thread_joinable, mutex,
                 worker_pc, main_arg, cpu_time, signals, check_failed,
                 threads_started, memory_window_ms, cpu_window_ms>>
  /\ UNCHANGED <<producer_vars, runner_vars, flush_complete,
                 started_notified, stopped_notified, scheduled_delays,
                 state_path, delivered, stale_runs, ring_vars, trigger_vars>>

\* thread_.join() returns once ThreadMain has returned.
JoinWorker ==
  /\ ~Terminated
  /\ main_pc = "join"
  /\ worker_pc = "returned"
  /\ main_pc' = "destroyed"
  /\ thread_joinable' = FALSE
  /\ UNCHANGED <<polling_interval_ms, memory_limit_bytes,
                 cpu_limit_percentage, cpu_window, quit, mutex, worker_pc,
                 main_arg, cpu_time, signals, check_failed, threads_started,
                 memory_window_ms, cpu_window_ms>>
  /\ UNCHANGED <<producer_vars, runner_vars, observed_vars, ring_vars,
                 trigger_vars>>

\* A watchdog constructed with a test polling interval.
WatchdogInit == \E polling \in PollingIntervals : ProcessStart(polling)

\* The memory side of the watchdog: the limit is reconfigured while the
\* worker samples the resident set size.
MemoryNext ==
  \/ Start
  \/ \E bytes \in MemoryLimits, window_ms \in WindowsMs :
       SetMemoryLimitReset(bytes, window_ms)
  \/ SetMemoryLimitStore
  \/ \E open_ok \in BOOLEAN : WorkerOpen(open_ok)
  \/ \E read_ok \in BOOLEAN, rss_bytes \in Samples :
       WorkerPoll(read_ok, rss_bytes, 0)

MemorySpec == WatchdogInit /\ [][MemoryNext]_vars

\* The whole watchdog from construction to destruction, with one resident
\* set size.
WatchdogNext ==
  \/ Start
  \/ \E bytes \in MemoryLimits, window_ms \in WindowsMs :
       SetMemoryLimitReset(bytes, window_ms)
  \/ SetMemoryLimitStore
  \/ \E percentage \in CpuLimits, window_ms \in WindowsMs :
       SetCpuLimitReset(percentage, window_ms)
  \/ SetCpuLimitStore
  \/ \E open_ok \in BOOLEAN : WorkerOpen(open_ok)
  \/ \E read_ok \in BOOLEAN, ticks \in CpuTicks :
       WorkerPoll(read_ok, ResidentSetSize, ticks)
  \/ DestroyWatchdog
  \/ JoinWorker

WatchdogSpec == WatchdogInit /\ [][WatchdogNext]_vars

\* The scheduler lets the worker thread run (wait_for returns after the
\* polling interval at the latest) and join() return.
WatchdogLiveSpec ==
  /\ WatchdogSpec
  /\ WF_vars(\E open_ok \in BOOLEAN : WorkerOpen(open_ok))
  /\ WF_vars(\E read_ok \in BOOLEAN, ticks \in CpuTicks :
               WorkerPoll(read_ok, ResidentSetSize, ticks))
  /\ WF_vars(JoinWorker)

\* The task runner eventually runs every delayed flush-timeout task.
LiveSpec == Spec /\ \A t \in TimeoutKeys : WF_vars(FlushTimeoutTask(t))

\* ------------------------------------------------------------------ claims
\* The flush callbacks of the live producer that belong to flush request F:
\* one per started instance the request named.
FlushKeys(F) == {k \in DOMAIN callbacks : k[1] = epoch /\ k[2] = F}
TimeoutQueued(F) == <<epoch, F>> \in flush_timeouts

\* C1: the endpoint receives NotifyFlushComplete(F) at most once per flush
\* request F, whatever the order, number and timing of the acks and of the
\* timeout.
C1_NotifyAtMostOnce == \A F \in FlushIds : flush_complete[F] <= 1

\* C2: for a flush request that queued at least one started instance,
\* NotifyFlushComplete(F) has been emitted only if every queued instance has
\* acked F or the timeout task of F has run.
C2_NotifyOnlyWhenAllAckedOrTimedOut ==
  \A F \in FlushIds :
    (FlushKeys(F) # {} /\ flush_complete[F] > 0)
      => \/ \A k \in FlushKeys(F) : callbacks[k] >= 1
         \/ ~TimeoutQueued(F)

\* The endpoint was notified of F and no entry of F is pending.
FlushDone(F) ==
  flush_complete[F] > 0 /\ PendingCount(pending_flushes, F) = 0

\* C3: every flush request issued to a producer is eventually completed:
\* unless that producer is restarted first, NotifyFlushComplete(F) has been
\* emitted and the pending-flush table holds no entry for F, from then on.
C3_FlushEventuallyCompletes ==
  \A e \in Epochs : \A F \in FlushIds :
    (epoch = e /\ next_flush_id > F) ~> [](epoch # e \/ FlushDone(F))

\* A flush was forced to completion by its timeout although an instance it
\* queued never acked and has been stopped in the meantime.
C3_Witness ==
  \E F \in FlushIds : \E k \in FlushKeys(F) :
    /\ callbacks[k] = 0
    /\ k[3] \notin DOMAIN data_sources
    /\ ~TimeoutQueued(F)
    /\ FlushDone(F)

\* C4: Flush(F, ids) hands the request to exactly the ids that resolve to a
\* started instance and leaves one pending entry for each of them that has
\* not acked yet; when no id qualifies it notifies completion at once, posts
\* no timeout task and leaves the pending-flush table unchanged.
C4_FlushFanOut ==
  [][\A ids \in IdLists(InstanceIds) : \A sync \in [1..Len(ids) -> BOOLEAN] :
       Flush(ids, sync) =>
         LET F == next_flush_id
             named == {ids[i] : i \in 1..Len(ids)}
             qualifies == {id \in named : id \in DOMAIN data_sources
                                          /\ data_sources[id].started}
             acked == {ids[i] : i \in {j \in 1..Len(ids) : sync[j]}}
         IN /\ (DOMAIN callbacks') \ (DOMAIN callbacks)
                 = {<<epoch, F, id>> : id \in qualifies}
            /\ \A k \in PendingKeys :
                 pending_flushes'[k] =
                   IF k[1] = F /\ k[2] \in qualifies \ acked
                   THEN pending_flushes[k] + 1 ELSE pending_flushes[k]
            /\ qualifies = {} =>
                 /\ flush_complete'[F] = flush_complete[F] + 1
                 /\ flush_timeouts' = flush_timeouts
                 /\ pending_flushes' = pending_flushes
            /\ qualifies # {} => <<epoch, F>> \in flush_timeouts'
    ]_vars

\* A flush that queued one started instance while another known instance was
\* not started and was skipped.
C4_Witness ==
  \E F \in FlushIds : \E a \in InstanceIds : \E b \in InstanceIds :
    /\ FlushKeys(F) = {<<epoch, F, a>>}
    /\ pending_flushes[<<F, a>>] = 1
    /\ TimeoutQueued(F)
    /\ b \in DOMAIN data_sources /\ ~data_sources[b].started
    /\ pending_flushes[<<F, b>>] = 0

\* No callback of F ran inside the instance's Flush or more than once.
AsyncOnce(F) ==
  /\ FlushKeys(F) # {}
  /\ FlushKeys(F) \cap sync_acked = {}
  /\ \A k \in FlushKeys(F) : callbacks[k] <= 1
AllAcked(F) == \A k \in FlushKeys(F) : callbacks[k] = 1

\* C5: when every instance queued for F acks once, after Flush returned and
\* before the timeout task runs, NotifyFlushComplete(F) is emitted exactly
\* once, on the last ack, and the later OnFlushTimeout(F) changes nothing.
C5_HappyPath ==
  /\ [](\A F \in FlushIds :
          (AsyncOnce(F) /\ TimeoutQueued(F)) =>
            IF AllAcked(F)
            THEN flush_complete[F] = 1
                 /\ PendingCount(pending_flushes, F) = 0
            ELSE flush_complete[F] = 0)
  /\ [][\A F \in FlushIds :
          (AsyncOnce(F) /\ AllAcked(F) /\ FlushTimeoutTask(<<epoch, F>>)) =>
            UNCHANGED <<pending_flushes, flush_complete, data_sources,
                        session_data_sources, watchdogs, started_notified,
                        stopped_notified>>
       ]_vars

\* Two instances acked once each, the timeout task has run since, and the
\* endpoint saw one notification.
C5_Witness ==
  \E F \in FlushIds :
    /\ AsyncOnce(F) /\ AllAcked(F)
    /\ Cardinality(FlushKeys(F)) = 2
    /\ ~TimeoutQueued(F)
    /\ flush_complete[F] = 1

\* C6: registry coherence.  Every instance owned by data_sources_ appears
\* exactly once in session_data_sources_[its session] under its descriptor,
\* and every entry of session_data_sources_ points to an instance that
\* data_sources_ owns, with that session and descriptor.
C6_RegistryCoherence ==
  /\ \A id \in DOMAIN data_sources :
       LET ds == data_sources[id]
       IN /\ ds.tracing_session_id \in DOMAIN session_data_sources
          /\ session_data_sources[ds.tracing_session_id]
               [<<ds.descriptor, id>>] = 1
  /\ \A s \in DOMAIN session_data_sources : \A k \in SessionKeys :
       session_data_sources[s][k] > 0 =>
         /\ session_data_sources[s][k] = 1
         /\ k[2] \in DOMAIN data_sources
         /\ data_sources[k[2]].tracing_session_id = s
         /\ data_sources[k[2]].descriptor = k[1]

\* After a restart: one instance registered and started, another one set up
\* and stopped again.
C6_Witness ==
  /\ epoch > 0
  /\ \E a \in InstanceIds : \E b \in InstanceIds :
       /\ a \in DOMAIN data_sources
       /\ data_sources[a].started
       /\ b \notin DOMAIN data_sources
       /\ stopped_notified[b] = 1

\* C7: four consecutive failed connection attempts after ConnectWithRetries
\* schedule the reconnect with delays 100, 200, 400 and 800 ms, in order.
C7_BackoffScenario ==
  \A i \in 1..Len(scheduled_delays) :
    i <= 4 => scheduled_delays[i] = <<100, 200, 400, 800>>[i]

\* The double of a delay, cut off at the 30 s cap.
DoubledUpToCap(d) == IF 2 * d > 30000 THEN 30000 ELSE 2 * d

\* C8: over consecutive failed connects the reconnect delays never decrease,
\* each is the double of the previous one cut off at 30000 ms, none exceeds
\* 30000 ms; a successful OnConnect leaves the backoff at 100 ms.
C8_BackoffMonotone ==
  /\ \A i \in 1..Len(scheduled_delays) : scheduled_delays[i] <= 30000
  /\ \A i \in 1..(Len(scheduled_delays) - 1) :
       /\ scheduled_delays[i + 1] >= scheduled_delays[i]
       /\ scheduled_delays[i + 1] = DoubledUpToCap(scheduled_delays[i])
  /\ state = "Connected" => connection_backoff_ms = 100

\* The delays have reached the cap and stayed there.
C8_Witness ==
  /\ Len(scheduled_delays) >= 10
  /\ scheduled_delays[8] = 25600
  /\ scheduled_delays[9] = 30000
  /\ scheduled_delays[10] = 30000

\* The arrows of the state transition diagram.
DiagramEdges ==
  {<<"NotStarted", "NotConnected">>, <<"NotConnected", "Connecting">>,
   <<"Connecting", "Connected">>, <<"Connecting", "NotConnected">>}

\* C9: state_ only moves along NotStarted->NotConnected,
\* NotConnected->Connecting, Connecting->Connected, Connecting->NotConnected
\* and, through the restart (the re-constructed producer is NotStarted),
\* Connected->NotConnected; ConnectWithRetries only runs in NotStarted and
\* Connect only in NotConnected.
C9_StateTransitions ==
  /\ dcheck_failed \cap {"ConnectWithRetries", "Connect"} = {}
  /\ state_path[Len(state_path)] = state
  /\ \A i \in 1..(Len(state_path) - 1) :
       \/ <<state_path[i], state_path[i + 1]>> \in DiagramEdges
       \/ /\ state_path[i] = "Connected"
          /\ state_path[i + 1] = "NotStarted"
          /\ i + 2 <= Len(state_path)
          /\ state_path[i + 2] = "NotConnected"

\* The restart has just run: Connected, re-constructed, connecting again.
C9_Witness ==
  /\ epoch > 0
  /\ state_path = <<"Connected", "NotStarted", "NotConnected", "Connecting">>

\* The service's OnDisconnect callback arrives.
Disconnected == ipc \in {"connecting", "connected"} /\ ipc' = "closed"

\* C10: a disconnect while Connected posts the restart, and the restart
\* leaves a producer without any data-source state, with the backoff at
\* 100 ms, connecting again with the socket name and task runner it had; a
\* disconnect while Connecting keeps the producer and its state and only
\* schedules the delayed reconnect.
C10_DisconnectPolicy ==
  [][/\ (Disconnected /\ state = "Connected") =>
          /\ restart_posted' /\ ~reconnect_posted'
          /\ UNCHANGED <<epoch, data_vars, state>>
     /\ (epoch' # epoch) =>
          /\ restart_posted /\ state = "Connected"
          /\ data_sources' = EmptyMap
          /\ session_data_sources' = EmptyMap
          /\ pending_flushes' = NoPending
          /\ watchdogs' = EmptyMap
          /\ connection_backoff_ms' = 100
          /\ state' = "Connecting"
          /\ ipc' = "connecting"
          /\ socket_name' = socket_name /\ socket_name' \in SocketNames
          /\ task_runner' = task_runner /\ task_runner' = TheTaskRunner
          /\ "ConnectWithRetries" \notin dcheck_failed'
     /\ (Disconnected /\ state = "Connecting") =>
          /\ reconnect_posted' /\ ~restart_posted'
          /\ UNCHANGED <<epoch, data_vars, socket_name, task_runner,
                         endpoint, flush_vars>>
    ]_vars

\* The restart has just run on a producer that had a started instance with a
\* flush in flight: its callback outlives it, the new producer is empty.
C10_Witness ==
  /\ epoch > 0
  /\ state = "Connecting"
  /\ \E k \in DOMAIN callbacks : k[1] < epoch
  /\ data_sources = EmptyMap
  /\ scheduled_delays = <<>>

\* C11: an ack callback or a timeout task that a Flush of a destroyed
\* producer created emits no NotifyFlushComplete and leaves the pending-flush
\* table of the live producer as it is when it runs, also when the live
\* producer has a flush with the same flush_request_id pending.
C11_RestartCancelsFlushes ==
  [][/\ \A k \in CallbackKeys :
          (k[1] # epoch /\ FlushCallback(k)) =>
            UNCHANGED <<pending_flushes, flush_complete>>
     /\ \A t \in TimeoutKeys :
          (t[1] # epoch /\ FlushTimeoutTask(t)) =>
            UNCHANGED <<pending_flushes, flush_complete>>
    ]_vars

\* The timeout task of the destroyed producer has just run while the live
\* producer had a flush with the same id pending and an ack callback of the
\* destroyed producer for that id is still held; the flush is still pending
\* and has not been notified.
C11_Witness ==
  /\ epoch > 0
  /\ stale_runs = {"timeout"}
  /\ \E F \in FlushIds :
       /\ PendingCount(pending_flushes, F) > 0
       /\ flush_complete[F] = 0
       /\ \E k \in DOMAIN callbacks : k[1] < epoch /\ k[2] = F

\* C12: StartDataSource on an unknown id changes no state and emits
\* nothing; on a known instance that is not started it sets started, calls
\* Start() once and emits one NotifyDataSourceStarted(id); on a started
\* instance it emits nothing, does not call Start() and attaches no timer.
C12_StartIdempotent ==
  [][\A id \in InstanceIds : \A d \in TraceDurations :
       StartDataSource(id, d) =>
         IF id \notin DOMAIN data_sources
         THEN UNCHANGED <<producer_vars, notify_vars, flush_vars>>
         ELSE IF ~data_sources[id].started
         THEN /\ data_sources'[id].started
              /\ data_sources'[id].start_calls = 1
              /\ started_notified'[id] = started_notified[id] + 1
              /\ \A o \in InstanceIds \ {id} :
                   started_notified'[o] = started_notified[o]
         ELSE /\ UNCHANGED <<data_sources, watchdogs, started_notified>>
              /\ data_sources[id].start_calls = 1
              /\ started_notified[id] = 1
    ]_vars

\* An instance started without a trace duration, which a second
\* StartDataSource carrying a duration could have given a timer.
C12_Witness ==
  \E id \in DOMAIN data_sources :
    /\ data_sources[id].started
    /\ data_sources[id].start_calls = 1
    /\ started_notified[id] = 1
    /\ id \notin DOMAIN watchdogs
    /\ \E o \in UsedIds : o \notin DOMAIN data_sources

\* Entries of session_data_sources_[s] under key k (none when the session
\* has no map).
SessionCount(by_session, s, k) ==
  IF s \in DOMAIN by_session THEN by_session[s][k] ELSE 0

\* C13: StopDataSource(id) on a known instance emits
\* NotifyDataSourceStopped(id) once, removes that instance and no other from
\* data_sources_ and session_data_sources_ and drops its timer; every other
\* instance, timer and pending-flush entry stays as it is.  On an unknown
\* id it emits nothing and changes nothing.
C13_StopRemovesOnlyThatInstance ==
  [][\A id \in InstanceIds :
       StopDataSource(id) =>
         IF id \notin DOMAIN data_sources
         THEN UNCHANGED <<producer_vars, notify_vars, flush_vars>>
         ELSE /\ \A o \in InstanceIds :
                   stopped_notified'[o] =
                     stopped_notified[o] + (IF o = id THEN 1 ELSE 0)
              /\ DOMAIN data_sources' = (DOMAIN data_sources) \ {id}
              /\ \A o \in DOMAIN data_sources' :
                   data_sources'[o] = data_sources[o]
              /\ \A ss \in Sessions : \A k \in SessionKeys :
                   SessionCount(session_data_sources', ss, k) =
                     IF k[2] = id THEN 0
                     ELSE SessionCount(session_data_sources, ss, k)
              /\ DOMAIN watchdogs' = (DOMAIN watchdogs) \ {id}
              /\ \A o \in DOMAIN watchdogs' : watchdogs'[o] = watchdogs[o]
              /\ UNCHANGED <<pending_flushes, flush_vars, flush_complete,
                             started_notified>>
    ]_vars

\* An instance with a timer and a flush in flight was stopped; the other
\* instance of its session is still registered, started and holds its timer,
\* and the pending-flush entry is still there.
C13_Witness ==
  \E a \in InstanceIds : \E b \in InstanceIds : \E F \in FlushIds :
    /\ stopped_notified[b] = 1
    /\ b \notin DOMAIN data_sources
    /\ b \notin DOMAIN watchdogs
    /\ pending_flushes[<<F, b>>] = 1
    /\ a \in DOMAIN data_sources
    /\ data_sources[a].started
    /\ a \in DOMAIN watchdogs
    /\ SessionCount(session_data_sources,
                    data_sources[a].tracing_session_id,
                    <<data_sources[a].descriptor, a>>) = 1

\* The setup of this config fails: its name matches no descriptor, or the
\* ftrace factory returns none.
SetupFails(name, create_ok, add_ok) ==
  \/ name \notin kAllDataSources
  \/ /\ name = FtraceDescriptor
     /\ \/ ftrace_creation_failed
        \/ ~ftrace /\ ~create_ok
        \/ ~add_ok

\* An id the service used on this connection whose setup failed: it is not
\* registered and was never stopped.
FailedSetup(id) ==
  id \in UsedIds /\ id \notin DOMAIN data_sources /\ stopped_notified[id] = 0

\* C14: a SetupDataSource that fails changes neither index and reports
\* nothing to the service; whatever StartDataSource, Flush or StopDataSource
\* name that id afterwards, no NotifyDataSourceStarted or
\* NotifyDataSourceStopped is emitted for it and it is not queued for a flush.
C14_FailedSetup ==
  [][/\ \A name \in ConfigNames, ss \in Sessions,
           create_ok \in BOOLEAN, add_ok \in BOOLEAN :
          (SetupDataSource(name, ss, create_ok, add_ok, FALSE)
             /\ SetupFails(name, create_ok, add_ok)) =>
            UNCHANGED <<data_sources, session_data_sources, watchdogs,
                        pending_flushes, notify_vars, flush_vars>>
     /\ \A id \in InstanceIds :
          (FailedSetup(id) /\ epoch' = epoch) =>
            /\ started_notified[id] = 0 /\ started_notified'[id] = 0
            /\ stopped_notified'[id] = 0
            /\ id \notin DOMAIN data_sources'
            /\ id \notin DOMAIN watchdogs'
            /\ \A F \in FlushIds :
                 /\ pending_flushes'[<<F, id>>] = 0
                 /\ <<epoch, F, id>> \notin DOMAIN callbacks'
    ]_vars

\* Both setups of the connection failed, one of them in the ftrace factory,
\* and a Flush that could only name failed ids was acked at once.
C14_Witness ==
  /\ next_instance_id = 3
  /\ FailedSetup(1) /\ FailedSetup(2)
  /\ ftrace_creation_failed
  /\ next_flush_id > 1
  /\ flush_complete[1] = 1
  /\ FlushKeys(1) = {}

\* C15: the ftrace creation failure is sticky for the process lifetime.
\* ftrace_creation_failed_ is set by the first FtraceController::Create that
\* fails; from then on, through whatever setups, stops, disconnects and
\* restarts follow, it stays set, and every SetupDataSource of the ftrace
\* kind returns none without a controller being created.
C15_FtraceFailureSticky ==
  [][ftrace_creation_failed =>
       /\ ftrace_creation_failed'
       /\ ~ftrace'
       /\ \A id \in DOMAIN data_sources' :
            data_sources'[id].descriptor = FtraceDescriptor =>
              id \in DOMAIN data_sources
    ]_vars

\* Registered instances of a kind, and two instances of one session.
OfKind(id, descriptor) ==
  id \in DOMAIN data_sources /\ data_sources[id].descriptor = descriptor
SameSession(a, b) ==
  data_sources[a].tracing_session_id = data_sources[b].tracing_session_id
CallNames(calls) == {calls[i].call : i \in 1..Len(calls)}

\* C16: in a broadcast, a started process-stats instance with on-demand
\* dumps enabled receives, for each started ftrace instance of its session,
\* OnRenamePids(rename_pids) when rename_pids is not empty and
\* OnPids(pids) when pids is not empty, the first strictly before the
\* second; a process-stats instance that is not started or has on-demand
\* dumps disabled receives neither.
C16_RenameBeforePids ==
  [][OnFtraceDataWrittenIntoDataSourceBuffers =>
       \A ft \in InstanceIds : \A ps \in InstanceIds :
         (OfKind(ft, FtraceDescriptor) /\ OfKind(ps, ProcessStatsDescriptor)) =>
           LET md == data_sources[ft].metadata
               calls == delivered'[<<ft, ps>>]
           IN IF /\ data_sources[ft].started /\ SameSession(ft, ps)
                 /\ data_sources[ps].started
                 /\ data_sources[ps].on_demand_dumps_enabled
              THEN /\ ("OnRenamePids" \in CallNames(calls))
                        = (md.rename_pids # {})
                   /\ ("OnPids" \in CallNames(calls)) = (md.pids # {})
                   /\ \A i \in 1..Len(calls) :
                        /\ calls[i].call = "OnRenamePids" =>
                             calls[i].arg = md.rename_pids
                        /\ calls[i].call = "OnPids" =>
                             calls[i].arg = md.pids
                   /\ \A i, j \in 1..Len(calls) :
                        (calls[i].call = "OnRenamePids"
                           /\ calls[j].call = "OnPids") => i < j
              ELSE calls = <<>>
    ]_vars

\* A broadcast delivered rename pids, then pids, to one process-stats
\* instance and nothing to another one of the same session that is not
\* started or has on-demand dumps disabled.
C16_Witness ==
  \E ft \in InstanceIds : \E ps \in InstanceIds : \E off \in InstanceIds :
    /\ OfKind(ft, FtraceDescriptor)
    /\ OfKind(ps, ProcessStatsDescriptor)
    /\ OfKind(off, ProcessStatsDescriptor)
    /\ SameSession(ft, ps) /\ SameSession(ft, off)
    /\ delivered[<<ft, ps>>] =
         <<[call |-> "OnRenamePids", arg |-> {100}],
           [call |-> "OnPids", arg |-> {100, 101}]>>
    /\ delivered[<<ft, off>>] = <<>>

\* C17: a broadcast delivers the metadata of a ftrace instance only to
\* started process-stats and started inode-file instances of the session of
\* that instance: every started inode-file instance of the session receives
\* OnInodes with its inode+device pairs, and no instance of another session
\* receives anything from it.
C17_SessionIsolation ==
  [][OnFtraceDataWrittenIntoDataSourceBuffers =>
       \A ft \in InstanceIds : \A to \in InstanceIds :
         /\ delivered'[<<ft, to>>] # <<>> =>
              /\ OfKind(ft, FtraceDescriptor) /\ data_sources[ft].started
              /\ to \in DOMAIN data_sources /\ data_sources[to].started
              /\ data_sources[to].descriptor
                   \in {ProcessStatsDescriptor, InodeFileDescriptor}
              /\ SameSession(ft, to)
         /\ (/\ OfKind(ft, FtraceDescriptor) /\ data_sources[ft].started
             /\ OfKind(to, InodeFileDescriptor) /\ data_sources[to].started
             /\ SameSession(ft, to)) =>
              delivered'[<<ft, to>>] =
                <<[call |-> "OnInodes",
                   arg |-> data_sources[ft].metadata.inode_and_device]>>
    ]_vars

\* A broadcast delivered the inode+device pairs of a ftrace instance to the
\* inode-file instance of its session and nothing to a started inode-file
\* instance of another session.
C17_Witness ==
  \E ft \in InstanceIds : \E to \in InstanceIds : \E other \in InstanceIds :
    /\ OfKind(ft, FtraceDescriptor)
    /\ OfKind(to, InodeFileDescriptor)
    /\ OfKind(other, InodeFileDescriptor)
    /\ SameSession(ft, to) /\ ~SameSession(ft, other)
    /\ data_sources[other].started
    /\ delivered[<<ft, to>>] = <<[call |-> "OnInodes", arg |-> {<<9, 42>>}]>>
    /\ delivered[<<ft, other>>] = <<>>

\* C18: a broadcast leaves the metadata of every started ftrace instance
\* empty, whether or not an instance received it, and the metadata of a
\* ftrace instance that is not started as it was; a broadcast that follows
\* a broadcast delivers no metadata item.
C18_MetadataCleared ==
  [][OnFtraceDataWrittenIntoDataSourceBuffers =>
       /\ DOMAIN data_sources' = DOMAIN data_sources
       /\ \A ft \in DOMAIN data_sources :
            OfKind(ft, FtraceDescriptor) =>
              data_sources'[ft].metadata =
                IF data_sources[ft].started THEN NoMetadata
                ELSE data_sources[ft].metadata
       /\ delivered # NoCalls =>
            \A q \in InstanceIds \X InstanceIds :
              \A i \in 1..Len(delivered'[q]) : delivered'[q][i].arg = {}
    ]_vars

\* A broadcast has just run (an inode-file instance received the pairs of a
\* ftrace instance, whose metadata is now empty) while a ftrace instance
\* that is not started kept the metadata it had.
C18_Witness ==
  \E ft \in InstanceIds : \E to \in InstanceIds : \E idle \in InstanceIds :
    /\ OfKind(ft, FtraceDescriptor) /\ OfKind(idle, FtraceDescriptor)
    /\ delivered[<<ft, to>>] = <<[call |-> "OnInodes", arg |-> {<<9, 42>>}]>>
    /\ data_sources[ft].metadata = NoMetadata
    /\ ~data_sources[idle].started
    /\ data_sources[idle].metadata # NoMetadata

\* C19: Push on a ring of capacity c >= 1 returns true iff at least c
\* samples have been pushed since the ring was constructed or last Reset
\* (so, once true, it stays true until the next Reset).
C19_PushReturnsFull ==
  (window.size >= 1 /\ push_result # <<>>) =>
    (push_result[1] = (Len(pushed) >= window.size))

\* The last c samples pushed, oldest first.
LastSamples(c) == [i \in 1..c |-> pushed[Len(pushed) - c + i]]

\* C20: once c samples have been pushed into a ring of capacity c,
\* oldest_when_full is the oldest and newest_when_full the newest of the
\* last c samples, and mean() is their arithmetic mean as a real number,
\* that is c * mean() is their sum.
C20_RingValues ==
  (window.size >= 1 /\ Len(pushed) >= window.size) =>
    LET c == window.size
    IN /\ OldestWhenFull(window) = LastSamples(c)[1]
       /\ NewestWhenFull(window) = LastSamples(c)[c]
       /\ c * Mean(window) = SumOver(LastSamples(c), 1..c)

\* C21: with a non-zero memory limit the watchdog has raised SIGABRT iff
\* the memory ring is full (capacity samples were pushed since the last
\* SetMemoryLimit) and the mean of the samples in the ring is strictly
\* greater than the limit; with a zero limit no memory check aborts.  (The
\* CPU limit is 0 here, so every SIGABRT is one of CheckMemory.)
C21_MemoryThreshold ==
  /\ memory_limit_bytes = 0 => signals = 0
  /\ (memory_limit_bytes # 0 /\ window.size >= 1) =>
       LET c == window.size
       IN (signals > 0) <=>
            /\ Len(pushed) >= c
            /\ SumOver(LastSamples(c), 1..c) > c * memory_limit_bytes

\* The RSS samples of the self-abort scenario, in the order they are fed.
ScenarioSamples == <<50, 80, 120, 200>>

\* C22: with polling interval 1 ms and SetMemoryLimit(100, 4), feeding
\* the samples 50, 80, 120, 200 fills the memory ring on the 4th push, and
\* SIGABRT is raised on that push and on no earlier one.
C22_SelfAbortScenario ==
  (/\ polling_interval_ms = 1
   /\ memory_limit_bytes = 100
   /\ memory_window_ms = 4
   /\ Len(pushed) <= Len(ScenarioSamples)
   /\ pushed = SubSeq(ScenarioSamples, 1, Len(pushed))) =>
    IF pushed = ScenarioSamples
    THEN push_result = <<TRUE>> /\ signals = 1
    ELSE signals = 0

\* C23: when a posted trigger task runs, the trigger is forwarded to the
\* service (ActivateTriggers) only if the producer is connected; in the
\* states NotStarted, NotConnected and Connecting the trigger is dropped, a
\* failure atom is recorded and nothing is sent to the endpoint.
C23_TriggerOnlyWhenConnected ==
  [][trigger_tasks' = trigger_tasks - 1 =>
       IF state = "Connected"
       THEN /\ triggers_sent' = triggers_sent + 1
            /\ trigger_failures' = trigger_failures
       ELSE /\ triggers_sent' = triggers_sent
            /\ trigger_failures' = trigger_failures + 1
    ]_vars

\* A limit and the ring that belongs to it, as configured with window_ms.
ConsistentPair(limit, ring, window_ms) ==
  /\ (limit = 0) <=> (ring.size = 0)
  /\ limit # 0 =>
       /\ window_ms % polling_interval_ms = 0
       /\ ring.size = window_ms \div polling_interval_ms + 1
       /\ ring.size >= 2

\* A round of the worker loop that got past the test of quit_ (a step in
\* which the calling thread does not move).
WorkerChecked ==
  /\ worker_pc = "waiting"
  /\ worker_pc' = "waiting"
  /\ UNCHANGED <<main_pc, mutex>>
  /\ <<pushed, cpu_window, cpu_time>>' # <<pushed, cpu_window, cpu_time>>

\* C24: however SetMemoryLimit and SetCpuLimit interleave with the worker,
\* a round of the worker sees each limit with the ring configured for it
\* (limit 0 iff capacity 0; otherwise capacity = window_ms / polling + 1
\* >= 2 with window_ms a multiple of the polling interval) and pushes into
\* no ring of capacity 0; and a setter called with a non-zero limit and a
\* window that is no such multiple fails its check with nothing changed.
C24_ConsistentLimits ==
  [][/\ WorkerChecked =>
          /\ ConsistentPair(memory_limit_bytes, window, memory_window_ms)
          /\ ConsistentPair(cpu_limit_percentage, cpu_window, cpu_window_ms)
          /\ Len(pushed') > Len(pushed) => window.size > 0
          /\ cpu_window' # cpu_window => cpu_window.size > 0
     /\ \A limit \in MemoryLimits \cup CpuLimits, window_ms \in WindowsMs :
          (/\ \/ SetMemoryLimitReset(limit, window_ms)
              \/ SetCpuLimitReset(limit, window_ms)
           /\ limit # 0
           /\ window_ms % polling_interval_ms # 0) =>
            /\ check_failed'
            /\ UNCHANGED <<memory_limit_bytes, cpu_limit_percentage, window,
                           cpu_window, memory_window_ms, cpu_window_ms,
                           mutex, quit>>
    ]_vars

\* The worker has sampled twice under a memory limit with a window of two
\* polling intervals and a CPU limit, after the limits were set.
C24_Witness ==
  /\ worker_pc = "waiting"
  /\ polling_interval_ms = 2
  /\ memory_limit_bytes # 0
  /\ memory_window_ms = 4
  /\ cpu_limit_percentage # 0
  /\ cpu_window.position > 0
  /\ Len(pushed) >= 2
  /\ ~Terminated

\* 5000 + 2 * d as a number: the three halves <<carry, high, low>>.
ExactTimeout(d) ==
  LET low == 5000 + 2 * d[2]
      high == 2 * d[1] + low \div Half
  IN <<high \div Half, high % Half, low % Half>>

\* C25: StartDataSource on a known instance that is not started attaches a
\* fatal timer iff trace_duration_ms is positive, and the timer is armed
\* with 5000 + 2 * trace_duration_ms milliseconds for every uint32_t
\* duration (hence at least 5000 ms more than the trace duration).
C25_FatalTimerDeadline ==
  [][\A id \in InstanceIds : \A d \in TimerDurations :
       (/\ StartDataSource(id, d)
        /\ id \in DOMAIN data_sources
        /\ ~data_sources[id].started) =>
         /\ (id \in DOMAIN watchdogs') <=> (d # Uint32(0))
         /\ d # Uint32(0) => <<0>> \o watchdogs'[id] = ExactTimeout(d)
    ]_vars

\* Ids of the instances that are started.
StartedIds == {id \in DOMAIN data_sources : data_sources[id].started}

\* C26: the ids holding a fatal timer are ids of started instances (one
\* timer per id, watchdogs_ being a map), and the step that removes an
\* instance (StopDataSource, or the restart of the producer) leaves no
\* timer under its id.
C26_TimersFollowInstances ==
  /\ [](DOMAIN watchdogs \subseteq StartedIds)
  /\ [][\A id \in DOMAIN data_sources :
          (id \notin DOMAIN data_sources' \/ epoch' # epoch) =>
            id \notin DOMAIN watchdogs'
       ]_vars

\* After a restart, one instance with a timer has been stopped and another
\* one holds its timer.
C26_Witness ==
  /\ epoch = 1
  /\ \E id \in DOMAIN watchdogs, gone \in InstanceIds :
       /\ id # gone
       /\ stopped_notified[gone] > 0
       /\ started_notified[gone] > 0
       /\ gone \notin DOMAIN data_sources

\* C27: Start() launches at most one worker thread however often it is
\* called; once the destructor has set quit_ the worker makes no further
\* memory or CPU check; and the worker then leaves its loop, so that the
\* join of the destructor returns.
C27_WorkerLifecycle ==
  /\ [](threads_started <= 1)
  /\ [][(main_pc = "join" \/ main_pc = "destroyed") =>
          UNCHANGED <<window, cpu_window, pushed, cpu_time, signals>>
       ]_vars
  /\ (main_pc = "join") ~> (main_pc = "destroyed" /\ worker_pc = "returned")

\* The watchdog was destroyed after its worker had sampled under a memory
\* limit and then returned on quit_.
C27_Witness ==
  /\ main_pc = "destroyed"
  /\ threads_started = 1
  /\ worker_pc = "returned"
  /\ quit
  /\ memory_limit_bytes # 0
  /\ Len(pushed) >= 1
====
